---- MODULE Spec2Model ----
(***************************************************************************)
(* A model of the document store of src/app.py (load_json / save_json /    *)
(* seed_json_key over a local file backend and a remote table, fronted by  *)
(* the JSON cache) and of the token lifecycle built on it (password-reset  *)
(* grants, sessions).                                                      *)
(*                                                                         *)
(* Request threads are modelled by th[t].  Every access of a thread to     *)
(* shared state (cache, remote table, local file, DATA_LOCK) is one step,  *)
(* so that steps of different threads interleave as the server's request   *)
(* threads do.  Time is in seconds; one clock stands for time.monotonic()  *)
(* and time.time().                                                        *)
(***************************************************************************)
EXTENDS Integers, Sequences, FiniteSets, TLC

VARIABLES
    DATABASE_URL,                      \* resolved once at import (line 103)
    JSON_CACHE_TTL_SECONDS,            \* from AURA_CACHE_TTL_SECONDS (line 120)
    STORAGE_STATUS_CACHE_TTL_SECONDS,  \* from AURA_STORAGE_STATUS_TTL_SECONDS (line 124)
    now,                               \* the clock
    remote,                            \* the remote table: key -> row
    local,                             \* the local files: key -> file text
    JSON_CACHE,                        \* key -> (stored_at, stored_value)
    DB_LAST_ERROR,
    STORAGE_STATUS_CACHE,
    DATA_LOCK,                         \* 0 when free, else the holding thread
    JSON_CACHE_LOCK,                   \* 0 when free, else the holding thread
    minted,                            \* the number of tokens secrets.token_urlsafe has made
    ghostOn,                           \* which facts about the tokens ghost records
    ghost,                             \* what has happened to the tokens made so far
    th,                                \* the request threads
    histOn,                            \* how many completed calls hist records (0, 1 or 2)
    hist,                              \* the last completed calls (history)
    lastSet                            \* key -> (time, value) of the last cache_set_json (history)

vars == <<DATABASE_URL, JSON_CACHE_TTL_SECONDS, STORAGE_STATUS_CACHE_TTL_SECONDS, now,
          remote, local, JSON_CACHE, JSON_CACHE_LOCK, DB_LAST_ERROR, STORAGE_STATUS_CACHE, DATA_LOCK,
          minted, ghostOn, ghost, th, histOn, hist, lastSet>>

config == <<DATABASE_URL, JSON_CACHE_TTL_SECONDS, STORAGE_STATUS_CACHE_TTL_SECONDS, histOn,
           ghostOn>>

(***************************************************************************)
(* Bounds of the model.                                                    *)
(***************************************************************************)
\* seconds the clock may advance one by one after each jump
MaxTicks == 2
\* jumps of a whole token lifetime the clock may make
MaxJumps == 1
\* the cache TTLs tried are 0..MaxTtl
MaxTtl == 1
MaxTokens == 2
Threads == {1, 2}
Keys == {"application_review_tokens", "applications", "doc", "password_resets", "sessions"}
Docs == {"D1", "D2"}
\* the content of a local file that an earlier run of the program left behind
OldDoc == "D0"

(***************************************************************************)
(* Python objects: an identity and a value.  Two holders of an object with *)
(* the same identity hold the same object (a mutation through one is seen  *)
(* through the other).                                                     *)
(***************************************************************************)
None == [id |-> <<"None">>, val |-> "None"]
IsNone(o) == o.id = <<"None">>
Arg(t) == <<"arg", t>>
Loaded(t) == <<"loaded", t>>
Ret(t) == <<"ret", t>>
CacheObj(k) == <<"cache", k>>
Obj(i, v) == [id |-> i, val |-> v]

\* a faulty variant of clone_json_data: no copy is made
clone_json_data_shared(o, fresh) == o

\* copy.deepcopy: a new object (identity fresh) with an equal value
clone_json_data(o, fresh) == [id |-> fresh, val |-> o.val]

(***************************************************************************)
(* JSON texts: what json.dump writes and json.load parses.                 *)
(***************************************************************************)
NoFile == <<>>
Truncated == <<"empty">>
Garbage == <<"garbage">>
json_dumps(v) == <<"json", v>>
IsJson(text) == Len(text) = 2
json_loads(text) == text[2]
NoRow == <<>>

\* a faulty variant of db_enabled: a recorded error switches the remote backend off
db_enabled_until_error == DATABASE_URL # "" /\ DB_LAST_ERROR = ""

\* line 380
db_enabled == DATABASE_URL # ""

path_exists(k) == local[k] # NoFile

\* SELECT value ...; no row: the caller's default object itself
db_load_json(t, k, default) ==
    IF remote[k] = NoRow THEN default ELSE Obj(Loaded(t), json_loads(remote[k]))

\* a faulty variant of db_save_json: the entries of the stored row that the new
\* document lacks are kept
db_save_json_merge(k, data) ==
    [remote EXCEPT ![k] =
        IF IsJson(@)
        THEN json_dumps([x \in DOMAIN json_loads(@) \cup DOMAIN data.val |->
                            IF x \in DOMAIN data.val THEN data.val[x] ELSE json_loads(@)[x]])
        ELSE json_dumps(data.val)]

\* INSERT ... ON CONFLICT (key) DO UPDATE
db_save_json(k, data) == [remote EXCEPT ![k] = json_dumps(data.val)]

\* a faulty variant of db_seed_json: the insert overwrites an existing row
db_seed_json_upsert(k, data) == db_save_json(k, data)

\* INSERT ... ON CONFLICT (key) DO NOTHING
db_seed_json(k, data) ==
    IF remote[k] = NoRow THEN [remote EXCEPT ![k] = json_dumps(data.val)] ELSE remote

(***************************************************************************)
(* The cache.                                                              *)
(***************************************************************************)
NoEntry == <<>>

\* a faulty variant of CacheExpired: an entry expires at now - stored_at = TTL already
CacheExpiredEarly(k) == now - JSON_CACHE[k][1] >= JSON_CACHE_TTL_SECONDS

\* line 437
CacheExpired(k) == now - JSON_CACHE[k][1] > JSON_CACHE_TTL_SECONDS

CacheHit(k) ==
    /\ JSON_CACHE_TTL_SECONDS > 0
    /\ JSON_CACHE[k] # NoEntry
    /\ ~CacheExpired(k)

\* what cache_get_json returns to thread t
cache_get_json(t, k) ==
    IF CacheHit(k) THEN clone_json_data(JSON_CACHE[k][2], Ret(t)) ELSE None

\* the cache after cache_get_json: an expired entry is popped
cache_after_get(k) ==
    IF JSON_CACHE_TTL_SECONDS > 0 /\ JSON_CACHE[k] # NoEntry /\ CacheExpired(k)
    THEN [JSON_CACHE EXCEPT ![k] = NoEntry]
    ELSE JSON_CACHE

\* a faulty variant of cache_lock_free: the cache block takes DATA_LOCK as well
cache_lock_free_data(t) == JSON_CACHE_LOCK \in {0, t} /\ DATA_LOCK = 0

\* the thread t can enter a with JSON_CACHE_LOCK block (lines 432 and 447)
cache_lock_free(t) == JSON_CACHE_LOCK \in {0, t}

\* cache_set_json as a step: the cache entry and the history of sets; the
\* lock is free when the with block of line 447 is left
cache_set_json(k, data) ==
    /\ JSON_CACHE_LOCK' = 0
    /\ IF JSON_CACHE_TTL_SECONDS <= 0
       THEN UNCHANGED <<JSON_CACHE, lastSet>>
       ELSE /\ JSON_CACHE' = [JSON_CACHE EXCEPT ![k] = <<now, clone_json_data(data, CacheObj(k))>>]
            /\ lastSet' = [lastSet EXCEPT ![k] = <<now, data.val>>]

(***************************************************************************)
(* Threads.  The fields failed, pre and mine are history: failed says that  *)
(* the remote operation of the current call raised; pre is the local file  *)
(* and the remote row at the start of a seed; mine is the document of the  *)
(* thread's last save_json while no other thread has started a save_json   *)
(* since, kept until the load_json that follows that save has returned.    *)
(***************************************************************************)
IdleThread ==
    [pc |-> "idle", op |-> "none", call |-> "none", key |-> "doc", cont |-> "idle",
     arg |-> None, payload |-> None, loaded |-> None, ret |-> None,
     in |-> "None", after |-> "idle", doc |-> <<>>, tok |-> 0, out |-> {}, at |-> 0,
     gone |-> {}, apps |-> {},
     failed |-> FALSE, pre |-> <<NoFile, NoRow>>, mine |-> "none"]

\* hist holds the last two completed calls
NoCall == [op |-> "none", key |-> "doc", arg |-> "None", ret |-> "None",
           failed |-> FALSE, pre |-> <<NoFile, NoRow>>, rec |-> {}, at |-> 0, gone |-> {}]
Push(h, e) == IF histOn = 0 THEN h ELSE IF histOn = 1 THEN <<h[1], e>> ELSE <<h[2], e>>

HistEntry(t, r, result) ==
    [op |-> r.op, key |-> r.key, arg |-> r.in, ret |-> result,
     failed |-> r.failed, pre |-> r.pre, rec |-> r.out, at |-> r.at, gone |-> r.gone]

\* the current store call of thread t returns result; r is the thread after the step
Return(t, r, result) ==
    /\ IF r.cont = "idle"
       THEN /\ th' = [th EXCEPT ![t] = [IdleThread EXCEPT !.arg = r.arg, !.ret = result,
                                                           !.mine = r.mine]]
            /\ hist' = Push(hist, HistEntry(t, r, result.val))
       ELSE /\ th' = [th EXCEPT ![t] = [r EXCEPT !.pc = r.cont, !.ret = result, !.call = "none"]]
            /\ UNCHANGED hist

\* an operation of the token lifecycle (thread t, after the step r) returns result
ReturnOp(t, r, result) ==
    /\ th' = [th EXCEPT ![t] = IdleThread]
    /\ hist' = Push(hist, HistEntry(t, r, result))

\* the thread r calls load_json / save_json (entering at pc) and continues at cont
Sub(r, call, k, arg, pc, cont) ==
    [r EXCEPT !.call = call, !.key = k, !.arg = arg, !.pc = pc, !.cont = cont,
              !.ret = None, !.loaded = None, !.failed = FALSE]

Goto(t, r, pc) == th' = [th EXCEPT ![t] = [r EXCEPT !.pc = pc]]

\* thread t (idle) starts a call of the store's API
Begin(t, op, k, arg, pc) ==
    [IdleThread EXCEPT !.pc = pc, !.op = op, !.call = op, !.key = k, !.arg = arg,
                       !.in = arg.val,
                       !.pre = IF op = "seed_json_key" THEN <<local[k], remote[k]>>
                                                            ELSE <<NoFile, NoRow>>]

(***************************************************************************)
(* load_json (lines 615-637).                                              *)
(***************************************************************************)
call_load_json(t, k, default) ==
    /\ th[t].pc = "idle"
    /\ th' = [th EXCEPT ![t] = [Begin(t, "load_json", k, Obj(Arg(t), default), "lj_cache")
                                   EXCEPT !.mine = IF IsNone(th[t].ret) THEN th[t].mine ELSE "none"]]
    /\ UNCHANGED <<config, minted, ghost, now, remote, local, JSON_CACHE, JSON_CACHE_LOCK, DB_LAST_ERROR,
                   STORAGE_STATUS_CACHE, DATA_LOCK, hist, lastSet>>

\* lines 616-619
lj_cache(t) ==
    LET r == th[t] IN
    /\ r.pc = "lj_cache"
    /\ cache_lock_free(t)
    /\ JSON_CACHE' = cache_after_get(r.key)
    /\ JSON_CACHE_LOCK' = 0
    /\ IF ~IsNone(cache_get_json(t, r.key))
       THEN Return(t, r, cache_get_json(t, r.key))
       ELSE /\ Goto(t, r, IF db_enabled THEN "lj_db" ELSE "lj_exists")
            /\ UNCHANGED hist
    /\ UNCHANGED <<config, minted, ghost, now, remote, local, DB_LAST_ERROR,
                   STORAGE_STATUS_CACHE, DATA_LOCK, lastSet>>

\* line 621, and lines 624-625 when the remote call raises
lj_db(t) ==
    LET r == th[t] IN
    /\ r.pc = "lj_db"
    /\ \/ /\ Goto(t, [r EXCEPT !.loaded = db_load_json(t, r.key, r.arg)], "lj_db_cache")
          /\ UNCHANGED DB_LAST_ERROR
       \/ /\ Goto(t, [r EXCEPT !.failed = TRUE], "lj_exists")
          /\ DB_LAST_ERROR' = "error"
    /\ UNCHANGED <<config, minted, ghost, now, remote, local, JSON_CACHE, JSON_CACHE_LOCK,
                   STORAGE_STATUS_CACHE, DATA_LOCK, hist, lastSet>>

\* lines 622-623
lj_db_cache(t) ==
    LET r == th[t] IN
    /\ r.pc = "lj_db_cache"
    /\ cache_lock_free(t)
    /\ cache_set_json(r.key, r.loaded)
    /\ Return(t, r, clone_json_data(r.loaded, Ret(t)))
    /\ UNCHANGED <<config, minted, ghost, now, remote, local, DB_LAST_ERROR,
                   STORAGE_STATUS_CACHE, DATA_LOCK>>

\* line 626
lj_exists(t) ==
    LET r == th[t] IN
    /\ r.pc = "lj_exists"
    /\ Goto(t, r, IF ~path_exists(r.key) THEN "lj_default" ELSE "lj_lock")
    /\ UNCHANGED <<config, minted, ghost, now, remote, local, JSON_CACHE, JSON_CACHE_LOCK, DB_LAST_ERROR,
                   STORAGE_STATUS_CACHE, DATA_LOCK, hist, lastSet>>

\* lines 627-628
lj_default(t) ==
    LET r == th[t] IN
    /\ r.pc = "lj_default"
    /\ cache_lock_free(t)
    /\ cache_set_json(r.key, r.arg)
    /\ Return(t, r, clone_json_data(r.arg, Ret(t)))
    /\ UNCHANGED <<config, minted, ghost, now, remote, local, DB_LAST_ERROR,
                   STORAGE_STATUS_CACHE, DATA_LOCK>>

\* lines 629-632: take DATA_LOCK, open and parse the file
lj_lock(t) ==
    LET r == th[t] IN
    /\ r.pc = "lj_lock"
    /\ DATA_LOCK = 0
    /\ DATA_LOCK' = t
    /\ IF IsJson(local[r.key])
       THEN Goto(t, [r EXCEPT !.loaded = Obj(Loaded(t), json_loads(local[r.key]))], "lj_read_cache")
       ELSE Goto(t, r, "lj_corrupt")
    /\ UNCHANGED <<config, minted, ghost, now, remote, local, JSON_CACHE, JSON_CACHE_LOCK, DB_LAST_ERROR,
                   STORAGE_STATUS_CACHE, hist, lastSet>>

\* lines 633-634, leaving the with block
lj_read_cache(t) ==
    LET r == th[t] IN
    /\ r.pc = "lj_read_cache"
    /\ cache_lock_free(t)
    /\ cache_set_json(r.key, r.loaded)
    /\ DATA_LOCK' = 0
    /\ Return(t, r, clone_json_data(r.loaded, Ret(t)))
    /\ UNCHANGED <<config, minted, ghost, now, remote, local, DB_LAST_ERROR, STORAGE_STATUS_CACHE>>

\* lines 635-637, leaving the with block
lj_corrupt(t) ==
    LET r == th[t] IN
    /\ r.pc = "lj_corrupt"
    /\ cache_lock_free(t)
    /\ cache_set_json(r.key, r.arg)
    /\ DATA_LOCK' = 0
    /\ Return(t, r, clone_json_data(r.arg, Ret(t)))
    /\ UNCHANGED <<config, minted, ghost, now, remote, local, DB_LAST_ERROR, STORAGE_STATUS_CACHE>>

load_json(t) ==
    \/ lj_cache(t) \/ lj_db(t) \/ lj_db_cache(t) \/ lj_exists(t)
    \/ lj_default(t) \/ lj_lock(t) \/ lj_read_cache(t) \/ lj_corrupt(t)

(***************************************************************************)
(* save_json_local (lines 588-591), called by save_json and seed_json_key. *)
(***************************************************************************)
\* lines 589-590: take DATA_LOCK; open(path, "w") truncates the file
sl_open(t) ==
    LET r == th[t] IN
    /\ r.pc = "sl_open"
    /\ DATA_LOCK = 0
    /\ DATA_LOCK' = t
    /\ local' = [local EXCEPT ![r.key] = Truncated]
    /\ Goto(t, r, "sl_dump")
    /\ UNCHANGED <<config, minted, ghost, now, remote, JSON_CACHE, JSON_CACHE_LOCK, DB_LAST_ERROR,
                   STORAGE_STATUS_CACHE, hist, lastSet>>

\* line 591: json.dump writes the document; the file is closed, the lock released
sl_dump(t) ==
    LET r == th[t] IN
    /\ r.pc = "sl_dump"
    /\ local' = [local EXCEPT ![r.key] = json_dumps(r.arg.val)]
    /\ DATA_LOCK' = 0
    /\ Goto(t, r, IF r.call = "save_json" THEN "sj_cache" ELSE "sk_cache")
    /\ UNCHANGED <<config, minted, ghost, now, remote, JSON_CACHE, JSON_CACHE_LOCK, DB_LAST_ERROR,
                   STORAGE_STATUS_CACHE, hist, lastSet>>

save_json_local(t) == sl_open(t) \/ sl_dump(t)

(***************************************************************************)
(* save_json (lines 640-649).                                              *)
(***************************************************************************)
\* line 641
save_json_entry == IF db_enabled THEN "sj_db" ELSE "sl_open"

call_save_json(t, k, data) ==
    /\ th[t].pc = "idle"
    /\ th' = [u \in Threads |->
                IF u = t
                THEN [Begin(t, "save_json", k, Obj(Arg(t), data), save_json_entry)
                         EXCEPT !.mine = data]
                ELSE [th[u] EXCEPT !.mine = "none"]]
    /\ UNCHANGED <<config, minted, ghost, now, remote, local, JSON_CACHE, JSON_CACHE_LOCK, DB_LAST_ERROR,
                   STORAGE_STATUS_CACHE, DATA_LOCK, hist, lastSet>>

\* line 643, and lines 646-647 when the remote call raises
sj_db(t) ==
    LET r == th[t] IN
    /\ r.pc = "sj_db"
    /\ \/ /\ remote' = db_save_json(r.key, r.arg)
          /\ Goto(t, r, "sj_db_cache")
          /\ UNCHANGED DB_LAST_ERROR
       \/ /\ Goto(t, [r EXCEPT !.failed = TRUE], "sl_open")
          /\ DB_LAST_ERROR' = "error"
          /\ UNCHANGED remote
    /\ UNCHANGED <<config, minted, ghost, now, local, JSON_CACHE, JSON_CACHE_LOCK,
                   STORAGE_STATUS_CACHE, DATA_LOCK, hist, lastSet>>

\* lines 644-645
sj_db_cache(t) ==
    LET r == th[t] IN
    /\ r.pc = "sj_db_cache"
    /\ cache_lock_free(t)
    /\ cache_set_json(r.key, r.arg)
    /\ Return(t, r, None)
    /\ UNCHANGED <<config, minted, ghost, now, remote, local, DB_LAST_ERROR,
                   STORAGE_STATUS_CACHE, DATA_LOCK>>

\* line 649
sj_cache(t) ==
    LET r == th[t] IN
    /\ r.pc = "sj_cache"
    /\ cache_lock_free(t)
    /\ cache_set_json(r.key, r.arg)
    /\ Return(t, r, None)
    /\ UNCHANGED <<config, minted, ghost, now, remote, local, DB_LAST_ERROR,
                   STORAGE_STATUS_CACHE, DATA_LOCK>>

save_json(t) == sj_db(t) \/ sj_db_cache(t) \/ sj_cache(t)

(***************************************************************************)
(* seed_json_key (lines 594-612).                                          *)
(***************************************************************************)
call_seed_json_key(t, k, default) ==
    /\ th[t].pc = "idle"
    /\ th' = [th EXCEPT ![t] = Begin(t, "seed_json_key", k, Obj(Arg(t), default),
                                     IF db_enabled THEN "sk_exists" ELSE "sk_local")]
    /\ UNCHANGED <<config, minted, ghost, now, remote, local, JSON_CACHE, JSON_CACHE_LOCK, DB_LAST_ERROR,
                   STORAGE_STATUS_CACHE, DATA_LOCK, hist, lastSet>>

\* lines 596-598: payload = default; is there a local file?
sk_exists(t) ==
    LET r == th[t] IN
    /\ r.pc = "sk_exists"
    /\ Goto(t, [r EXCEPT !.payload = r.arg], IF path_exists(r.key) THEN "sk_read" ELSE "sk_db")
    /\ UNCHANGED <<config, minted, ghost, now, remote, local, JSON_CACHE, JSON_CACHE_LOCK, DB_LAST_ERROR,
                   STORAGE_STATUS_CACHE, DATA_LOCK, hist, lastSet>>

\* lines 599-602: the file is read without DATA_LOCK; an unreadable file leaves the default
sk_read(t) ==
    LET r == th[t] IN
    /\ r.pc = "sk_read"
    /\ Goto(t, [r EXCEPT !.payload = IF IsJson(local[r.key])
                                     THEN Obj(Loaded(t), json_loads(local[r.key]))
                                     ELSE r.arg], "sk_db")
    /\ UNCHANGED <<config, minted, ghost, now, remote, local, JSON_CACHE, JSON_CACHE_LOCK, DB_LAST_ERROR,
                   STORAGE_STATUS_CACHE, DATA_LOCK, hist, lastSet>>

\* line 604, and lines 607-608 when the remote call raises
sk_db(t) ==
    LET r == th[t] IN
    /\ r.pc = "sk_db"
    /\ \/ /\ remote' = db_seed_json(r.key, r.payload)
          /\ Goto(t, r, "sk_db_cache")
          /\ UNCHANGED DB_LAST_ERROR
       \/ /\ Goto(t, [r EXCEPT !.failed = TRUE], "sk_local")
          /\ DB_LAST_ERROR' = "error"
          /\ UNCHANGED remote
    /\ UNCHANGED <<config, minted, ghost, now, local, JSON_CACHE, JSON_CACHE_LOCK,
                   STORAGE_STATUS_CACHE, DATA_LOCK, hist, lastSet>>

\* lines 605-606
sk_db_cache(t) ==
    LET r == th[t] IN
    /\ r.pc = "sk_db_cache"
    /\ cache_lock_free(t)
    /\ cache_set_json(r.key, r.payload)
    /\ Return(t, r, None)
    /\ UNCHANGED <<config, minted, ghost, now, remote, local, DB_LAST_ERROR,
                   STORAGE_STATUS_CACHE, DATA_LOCK>>

\* lines 609-611
sk_local(t) ==
    LET r == th[t] IN
    /\ r.pc = "sk_local"
    /\ IF path_exists(r.key)
       THEN /\ Return(t, r, None)
       ELSE /\ Goto(t, r, "sl_open")
            /\ UNCHANGED hist
    /\ UNCHANGED <<config, minted, ghost, now, remote, local, JSON_CACHE, JSON_CACHE_LOCK, DB_LAST_ERROR,
                   STORAGE_STATUS_CACHE, DATA_LOCK, lastSet>>

\* line 612
sk_cache(t) ==
    LET r == th[t] IN
    /\ r.pc = "sk_cache"
    /\ cache_lock_free(t)
    /\ cache_set_json(r.key, r.arg)
    /\ Return(t, r, None)
    /\ UNCHANGED <<config, minted, ghost, now, remote, local, DB_LAST_ERROR,
                   STORAGE_STATUS_CACHE, DATA_LOCK>>

seed_json_key(t) ==
    \/ sk_exists(t) \/ sk_read(t) \/ sk_db(t) \/ sk_db_cache(t) \/ sk_local(t) \/ sk_cache(t)

(***************************************************************************)
(* get_storage_status (lines 471-511).                                     *)
(***************************************************************************)
StatusCached ==
    /\ STORAGE_STATUS_CACHE_TTL_SECONDS > 0
    /\ STORAGE_STATUS_CACHE # <<>>
    /\ now - STORAGE_STATUS_CACHE[1] <= STORAGE_STATUS_CACHE_TTL_SECONDS

\* lines 473-485
call_get_storage_status(t) ==
    LET r == Begin(t, "get_storage_status", "doc", None, "st_probe") IN
    /\ th[t].pc = "idle"
    /\ IF ~db_enabled
       THEN Return(t, r, Obj(Ret(t), "local"))
       ELSE IF StatusCached
            THEN Return(t, r, Obj(Ret(t), STORAGE_STATUS_CACHE[2]))
            ELSE th' = [th EXCEPT ![t] = r] /\ UNCHANGED hist
    /\ UNCHANGED <<config, minted, ghost, now, remote, local, JSON_CACHE, JSON_CACHE_LOCK, DB_LAST_ERROR,
                   STORAGE_STATUS_CACHE, DATA_LOCK, lastSet>>

\* ghost: the time of a probe, where the specification follows the probes
ProbedAt == IF "probe" \in ghostOn THEN now ELSE 0

\* lines 487-506: the probe SELECT 1
st_probe(t) ==
    LET r == [th[t] EXCEPT !.at = ProbedAt] IN
    /\ r.pc = "st_probe"
    /\ \/ /\ DB_LAST_ERROR' = ""
          /\ Goto(t, [r EXCEPT !.loaded = Obj(Loaded(t), "db_ok")], "st_store")
       \/ /\ DB_LAST_ERROR' = "error"
          /\ Goto(t, [r EXCEPT !.loaded = Obj(Loaded(t), "db_error"), !.failed = TRUE], "st_store")
    /\ UNCHANGED <<config, minted, ghost, now, remote, local, JSON_CACHE, JSON_CACHE_LOCK,
                   STORAGE_STATUS_CACHE, DATA_LOCK, hist, lastSet>>

\* lines 508-511
st_store(t) ==
    LET r == th[t] IN
    /\ r.pc = "st_store"
    /\ STORAGE_STATUS_CACHE' = IF STORAGE_STATUS_CACHE_TTL_SECONDS > 0
                               THEN <<now, r.loaded.val>>
                               ELSE STORAGE_STATUS_CACHE
    /\ Return(t, r, r.loaded)
    /\ UNCHANGED <<config, minted, ghost, now, remote, local, JSON_CACHE, JSON_CACHE_LOCK, DB_LAST_ERROR,
                   DATA_LOCK, lastSet>>

get_storage_status(t) == st_probe(t) \/ st_store(t)

(***************************************************************************)
(* JSON_CACHE_LOCK (lines 432 and 447).  The steps above that work on the  *)
(* cache run the whole with block; cache_lock is its entry as a step of    *)
(* its own, after which the block runs while the thread holds the lock.    *)
(***************************************************************************)
CachePcs ==
    {"lj_cache", "lj_db_cache", "lj_default", "lj_read_cache", "lj_corrupt",
     "sj_db_cache", "sj_cache", "sk_db_cache", "sk_cache"}

cache_lock(t) ==
    /\ th[t].pc \in CachePcs
    /\ JSON_CACHE_TTL_SECONDS > 0
    /\ JSON_CACHE_LOCK = 0
    /\ JSON_CACHE_LOCK' = t
    /\ UNCHANGED <<config, minted, ghost, now, remote, local, JSON_CACHE, DB_LAST_ERROR,
                   STORAGE_STATUS_CACHE, DATA_LOCK, th, hist, lastSet>>

(***************************************************************************)
(* The caller of the store mutates, in place, an object it passed to the   *)
(* store or received from it.  Every holder of that object sees the change.*)
(***************************************************************************)
(* Token documents.  A document of tokens is a function from the tokens in *)
(* it to their records; secrets.token_urlsafe returns a token never made   *)
(* before, here the next number.                                           *)
(***************************************************************************)
PASSWORD_RESETS_PATH == "password_resets"
SESSIONS_PATH == "sessions"
RESET_TOKEN_TTL == 60 * 60
SESSION_TTL == 12 * 60 * 60
Tokens == 1..MaxTokens
EmptyDict == [x \in {} |-> {}]
\* the callers pass names without surrounding blanks; str.lower folds the case
lower(s) == IF s = "Alice" THEN "alice" ELSE s
Pairs == {<<"alice", "a@x.com">>, <<"Alice", "a@x.com">>}

\* ghost: the expiry time each token was made with, the session tokens for which
\* delete_session has returned, how often (0, 1, more) a review token's decision was
\* applied and notified
NoGhost == [expiry |-> EmptyDict, revoked |-> {}, applied |-> EmptyDict]

dict_without(d, gone) == [x \in DOMAIN d \ gone |-> d[x]]
dict_put(d, k, v) == [x \in DOMAIN d \cup {k} |-> IF x = k THEN v ELSE d[x]]
dict_get(d, k) == IF k \in DOMAIN d THEN {d[k]} ELSE {}

\* the specification follows the document key (its ghost facts, and the work of the
\* handlers on it)
Followed(key) == key \in ghostOn

\* ghost: the time a clean_... call reads
ReadAt == IF "read" \in ghostOn THEN now ELSE 0

\* ghost: token was made with the expiry time expires
Made(token, expires) ==
    ghost' = IF "expiry" \in ghostOn THEN [ghost EXCEPT !.expiry = dict_put(@, token, expires)]
             ELSE ghost

\* what the begin of an operation on the document k finds expired in the stored document
ExpiredIn(text, field) ==
    IF IsJson(text)
    THEN {x \in DOMAIN json_loads(text) : json_loads(text)[x][field] <= now}
    ELSE {}

BeginOp(t, op, k, in) ==
    [IdleThread EXCEPT !.op = op, !.key = k, !.in = in, !.gone = ghost.revoked,
                       !.pre = ExpiredIn(IF db_enabled THEN remote[k] ELSE local[k],
                                         IF k = SESSIONS_PATH THEN "expires" ELSE "expires_at")]

call_sub_load(t, r, cont) ==
    Sub(r, "load_json", r.key, Obj(Arg(t), EmptyDict), "lj_cache", cont)

call_sub_save(t, r, data, cont) ==
    Sub(r, "save_json", r.key, Obj(Arg(t), data), save_json_entry, cont)

\* a step of a token operation touches none of the store's state
LocalStep ==
    UNCHANGED <<config, now, remote, local, JSON_CACHE, JSON_CACHE_LOCK, DB_LAST_ERROR,
                STORAGE_STATUS_CACHE, DATA_LOCK, lastSet>>

Local == LocalStep /\ UNCHANGED ghost

(***************************************************************************)
(* Password-reset tokens (lines 1176-1242).                                *)
(***************************************************************************)
\* lines 1176-1196: the stored records are already normalised; the expired ones go
clean_password_resets(tokens) ==
    dict_without(tokens, {x \in DOMAIN tokens : tokens[x].expires_at <= now})

\* lines 1199-1206, after load_json has returned
lpr_clean(t) ==
    LET r == th[t]
        stored == r.ret.val
        cleaned == clean_password_resets(stored)
        kept == [r EXCEPT !.doc = cleaned, !.at = ReadAt]
    IN
    /\ r.pc = "lpr_clean"
    /\ IF cleaned # stored
       THEN th' = [th EXCEPT ![t] = call_sub_save(t, kept, cleaned, r.after)]
       ELSE Goto(t, kept, r.after)
    /\ UNCHANGED <<minted, hist>>
    /\ Local

\* line 1210
call_create_password_reset_token(t, who) ==
    /\ th[t].pc = "idle"
    /\ minted < MaxTokens
    /\ th' = [th EXCEPT ![t] =
                 call_sub_load(t, [BeginOp(t, "create_password_reset_token",
                                           PASSWORD_RESETS_PATH, who)
                                      EXCEPT !.after = "cpr_put"], "lpr_clean")]
    /\ UNCHANGED <<minted, hist>>
    /\ Local

\* the tokens of the pair (username, email), compared without case
same_pair(tokens, who) ==
    {x \in DOMAIN tokens : /\ lower(tokens[x].username) = lower(who[1])
                           /\ lower(tokens[x].email) = lower(who[2])}

\* lines 1211-1225
cpr_put(t) ==
    LET r == th[t]
        token == minted + 1
        tokens == dict_put(dict_without(r.doc, same_pair(r.doc, r.in)), token,
                           [username |-> r.in[1], email |-> lower(r.in[2]),
                            expires_at |-> now + RESET_TOKEN_TTL])
    IN
    /\ r.pc = "cpr_put"
    /\ minted' = token
    /\ th' = [th EXCEPT ![t] =
                 call_sub_save(t, [r EXCEPT !.doc = tokens, !.tok = token], tokens,
                               IF r.op = "handle_password_forgot" THEN "hf_notify"
                                                                  ELSE "cpr_ret")]
    /\ Made(token, now + RESET_TOKEN_TTL)
    /\ UNCHANGED hist
    /\ LocalStep

\* line 1226
cpr_ret(t) ==
    LET r == th[t] IN
    /\ r.pc = "cpr_ret"
    /\ ReturnOp(t, r, {r.tok})
    /\ UNCHANGED minted
    /\ Local

\* lines 1230-1232
call_peek_password_reset_token(t, token) ==
    /\ th[t].pc = "idle"
    /\ th' = [th EXCEPT ![t] =
                 call_sub_load(t, [BeginOp(t, "peek_password_reset_token",
                                           PASSWORD_RESETS_PATH, token)
                                      EXCEPT !.after = "ppr_ret", !.tok = token], "lpr_clean")]
    /\ UNCHANGED <<minted, hist>>
    /\ Local

\* line 1233
ppr_ret(t) ==
    LET r == th[t] IN
    /\ r.pc = "ppr_ret"
    /\ ReturnOp(t, r, dict_get(r.doc, r.tok))
    /\ UNCHANGED minted
    /\ Local

\* lines 1237-1239
call_consume_password_reset_token(t, token) ==
    /\ th[t].pc = "idle"
    /\ th' = [th EXCEPT ![t] =
                 call_sub_load(t, [BeginOp(t, "consume_password_reset_token",
                                           PASSWORD_RESETS_PATH, token)
                                      EXCEPT !.after = "cons_pop", !.tok = token], "lpr_clean")]
    /\ UNCHANGED <<minted, hist>>
    /\ Local

\* lines 1240-1241: the document is saved whether or not the token was in it
cons_pop(t) ==
    LET r == th[t]
        tokens == dict_without(r.doc, {r.tok})
    IN
    /\ r.pc = "cons_pop"
    /\ th' = [th EXCEPT ![t] =
                 call_sub_save(t, [r EXCEPT !.doc = tokens, !.out = dict_get(r.doc, r.tok)],
                               tokens,
                               IF r.op = "handle_password_forgot" THEN "hf_ret"
                                                                  ELSE "cons_ret")]
    /\ UNCHANGED <<minted, hist>>
    /\ Local

\* ghost: consume_password_reset_token(token) has returned the record of token
Consumed(token, record) ==
    ghost' = IF "consumed" \in ghostOn /\ record # {}
             THEN [ghost EXCEPT !.revoked = @ \cup {token}]
             ELSE ghost

\* line 1242
cons_ret(t) ==
    LET r == th[t] IN
    /\ r.pc = "cons_ret"
    /\ ReturnOp(t, r, r.out)
    /\ Consumed(r.tok, r.out)
    /\ UNCHANGED minted
    /\ LocalStep

password_resets(t) ==
    \/ lpr_clean(t) \/ cpr_put(t) \/ cpr_ret(t) \/ ppr_ret(t) \/ cons_pop(t) \/ cons_ret(t)

(***************************************************************************)
(* Sessions (lines 1171-1173 and 1342-1384).                               *)
(***************************************************************************)
\* a faulty variant of clean_sessions: a record is kept at its expiry time
clean_sessions_inclusive(sessions) ==
    dict_without(sessions, {x \in DOMAIN sessions : ~(sessions[x].expires >= now)})

\* lines 1171-1173
clean_sessions(sessions) ==
    dict_without(sessions, {x \in DOMAIN sessions : ~(sessions[x].expires > now)})

\* line 1343
call_create_session(t, username, role) ==
    /\ th[t].pc = "idle"
    /\ minted < MaxTokens
    /\ th' = [th EXCEPT ![t] =
                 call_sub_load(t, BeginOp(t, "create_session", SESSIONS_PATH,
                                          <<username, role>>), "cs_put")]
    /\ UNCHANGED <<minted, hist>>
    /\ Local

\* lines 1346-1349
cs_put(t) ==
    LET r == th[t]
        token == minted + 1
        sessions == dict_put(clean_sessions(r.ret.val), token,
                             [user |-> r.in[1], role |-> r.in[2],
                              expires |-> now + SESSION_TTL])
    IN
    /\ r.pc = "cs_put"
    /\ minted' = token
    /\ th' = [th EXCEPT ![t] =
                 call_sub_save(t, [r EXCEPT !.doc = sessions, !.tok = token], sessions, "cs_ret")]
    /\ Made(token, now + SESSION_TTL)
    /\ UNCHANGED hist
    /\ LocalStep

\* line 1350
cs_ret(t) ==
    LET r == th[t] IN
    /\ r.pc = "cs_ret"
    /\ ReturnOp(t, r, {r.tok})
    /\ UNCHANGED minted
    /\ Local

\* ghost: delete_session(token) has returned
Revoked(token) ==
    ghost' = IF "revoked" \in ghostOn THEN [ghost EXCEPT !.revoked = @ \cup {token}] ELSE ghost

\* line 1354
call_delete_session(t, token) ==
    /\ th[t].pc = "idle"
    /\ th' = [th EXCEPT ![t] =
                 call_sub_load(t, [BeginOp(t, "delete_session", SESSIONS_PATH, token)
                                      EXCEPT !.tok = token], "ds_pop")]
    /\ UNCHANGED <<minted, hist>>
    /\ Local

\* lines 1357-1359: nothing is written when the token is not in the document
ds_pop(t) ==
    LET r == th[t]
        sessions == r.ret.val
        popped == dict_without(sessions, {r.tok})
    IN
    /\ r.pc = "ds_pop"
    /\ IF r.tok \in DOMAIN sessions
       THEN /\ th' = [th EXCEPT ![t] =
                         call_sub_save(t, [r EXCEPT !.doc = popped], popped, "ds_ret")]
            /\ UNCHANGED <<hist, ghost>>
       ELSE /\ ReturnOp(t, r, {})
            /\ Revoked(r.tok)
    /\ UNCHANGED minted
    /\ LocalStep

ds_ret(t) ==
    LET r == th[t] IN
    /\ r.pc = "ds_ret"
    /\ ReturnOp(t, r, {})
    /\ Revoked(r.tok)
    /\ UNCHANGED minted
    /\ LocalStep

\* the cookie of the request carries no token (0) or the token; lines 1363-1373
NoToken == 0

call_get_session_user(t, token, role) ==
    /\ th[t].pc = "idle"
    /\ IF token = NoToken
       THEN ReturnOp(t, BeginOp(t, "get_session_user", SESSIONS_PATH, <<token, role>>), {})
       ELSE /\ th' = [th EXCEPT ![t] =
                         call_sub_load(t, [BeginOp(t, "get_session_user", SESSIONS_PATH,
                                                   <<token, role>>)
                                              EXCEPT !.tok = token], "gs_clean")]
            /\ UNCHANGED hist
    /\ UNCHANGED minted
    /\ Local

\* lines 1377-1379
gs_clean(t) ==
    LET r == th[t]
        raw_sessions == r.ret.val
        sessions == clean_sessions(raw_sessions)
        kept == [r EXCEPT !.doc = sessions, !.out = dict_get(sessions, r.tok), !.at = ReadAt]
    IN
    /\ r.pc = "gs_clean"
    /\ IF sessions # raw_sessions
       THEN th' = [th EXCEPT ![t] = call_sub_save(t, kept, sessions, "gs_ret")]
       ELSE Goto(t, kept, "gs_ret")
    /\ UNCHANGED <<minted, hist>>
    /\ Local

\* a faulty variant of role_accepts: the role of the record is not looked at
role_accepts_any(data, role) == TRUE

\* lines 1382-1383
role_accepts(data, role) == role = "" \/ data.role = role

\* lines 1380-1384
gs_ret(t) ==
    LET r == th[t]
        data == r.out
        role == r.in[2]
    IN
    /\ r.pc = "gs_ret"
    /\ ReturnOp(t, r, {d.user : d \in {d \in data : role_accepts(d, role)}})
    /\ UNCHANGED minted
    /\ Local

sessions_steps(t) ==
    \/ cs_put(t) \/ cs_ret(t) \/ ds_pop(t) \/ ds_ret(t) \/ gs_clean(t) \/ gs_ret(t)

(***************************************************************************)
(* handle_password_forgot (lines 4684-4719), for a request whose username  *)
(* and email match an application (lines 4685-4700 have passed): the reset *)
(* token is created, the notification is attempted, and the token is       *)
(* consumed again when the notification did not go out.                    *)
(***************************************************************************)
ResetSent == "user_reset_sent"
ResetNotSent == "user_reset_smtp_failed"

\* line 4702: create_password_reset_token begins
call_handle_password_forgot(t, who) ==
    /\ th[t].pc = "idle"
    /\ minted < MaxTokens
    /\ th' = [th EXCEPT ![t] =
                 call_sub_load(t, [BeginOp(t, "handle_password_forgot",
                                           PASSWORD_RESETS_PATH, who)
                                      EXCEPT !.after = "cpr_put"], "lpr_clean")]
    /\ UNCHANGED <<minted, hist>>
    /\ Local

\* lines 4703-4707 and 4719: notify_password_reset answers ok or not; when not,
\* consume_password_reset_token(token) begins
hf_notify(t) ==
    LET r == th[t] IN
    /\ r.pc = "hf_notify"
    /\ \E ok \in BOOLEAN :
           IF ok
           THEN ReturnOp(t, r, {ResetSent})
           ELSE /\ th' = [th EXCEPT ![t] =
                             call_sub_load(t, [r EXCEPT !.after = "cons_pop"], "lpr_clean")]
                /\ UNCHANGED hist
    /\ UNCHANGED minted
    /\ Local

\* lines 4708-4718: the token has been consumed, the handler answers
hf_ret(t) ==
    LET r == th[t] IN
    /\ r.pc = "hf_ret"
    /\ ReturnOp(t, r, {ResetNotSent})
    /\ Revoked(r.tok)
    /\ UNCHANGED minted
    /\ LocalStep

handle_password_forgot(t) == hf_notify(t) \/ hf_ret(t)

(***************************************************************************)
(* Application-review tokens (lines 1245-1330) and the two request         *)
(* handlers that present them (lines 4071-4125 and 4167-4260).             *)
(***************************************************************************)
APPLICATION_REVIEW_TOKENS_PATH == "application_review_tokens"
APPLICATION_REVIEW_TOKEN_TTL == 7 * 24 * 60 * 60
Apps == {"a1", "a2"}
Decisions == {"approved", "rejected"}

\* a faulty variant of clean_application_review_tokens: a record is kept at its
\* expiry time
clean_application_review_tokens_inclusive(tokens) ==
    dict_without(tokens, {x \in DOMAIN tokens : tokens[x].expires_at < now})

\* lines 1245-1275: the stored records are already normalised (used_decision is
\* "" when the record has none, used_at is the empty set when it has none; the
\* clock values it holds are positive); a record at or past its expiry time
\* goes, used or not
clean_application_review_tokens(tokens) ==
    dict_without(tokens, {x \in DOMAIN tokens : tokens[x].expires_at <= now})

\* lines 1278-1285, after load_json has returned
lar_clean(t) ==
    LET r == th[t]
        stored == r.ret.val
        cleaned == clean_application_review_tokens(stored)
        kept == [r EXCEPT !.doc = cleaned, !.at = ReadAt]
    IN
    /\ r.pc = "lar_clean"
    /\ IF cleaned # stored
       THEN th' = [th EXCEPT ![t] = call_sub_save(t, kept, cleaned, r.after)]
       ELSE Goto(t, kept, r.after)
    /\ UNCHANGED <<minted, hist>>
    /\ Local

\* lines 1289-1292: no token is made for an empty app_id
call_create_application_review_token(t, app_id) ==
    /\ th[t].pc = "idle"
    /\ minted < MaxTokens
    /\ IF app_id = ""
       THEN ReturnOp(t, BeginOp(t, "create_application_review_token",
                                APPLICATION_REVIEW_TOKENS_PATH, app_id), {})
       ELSE /\ th' = [th EXCEPT ![t] =
                         call_sub_load(t, [BeginOp(t, "create_application_review_token",
                                                   APPLICATION_REVIEW_TOKENS_PATH, app_id)
                                              EXCEPT !.after = "car_put"], "lar_clean")]
            /\ UNCHANGED hist
    /\ UNCHANGED minted
    /\ Local

\* lines 1293-1294: the tokens of the document whose record is for app_key
same_app(tokens, app_key) == {x \in DOMAIN tokens : tokens[x].app_id = app_key}

\* lines 1293-1302; out keeps the records the loop has popped
car_put(t) ==
    LET r == th[t]
        token == minted + 1
        popped == same_app(r.doc, r.in)
        tokens == dict_put(dict_without(r.doc, popped), token,
                           [app_id |-> r.in, expires_at |-> now + APPLICATION_REVIEW_TOKEN_TTL,
                            used |-> FALSE, used_decision |-> "", used_at |-> {}])
    IN
    /\ r.pc = "car_put"
    /\ minted' = token
    /\ th' = [th EXCEPT ![t] =
                 call_sub_save(t, [r EXCEPT !.doc = tokens, !.tok = token,
                                            !.out = {r.doc[x] : x \in popped}],
                               tokens, "car_ret")]
    /\ Made(token, now + APPLICATION_REVIEW_TOKEN_TTL)
    /\ UNCHANGED hist
    /\ LocalStep

\* line 1303
car_ret(t) ==
    LET r == th[t] IN
    /\ r.pc = "car_ret"
    /\ ReturnOp(t, r, {r.tok})
    /\ UNCHANGED minted
    /\ Local

\* lines 1307-1310; the handler of the review link (lines 4087-4114) answers
\* from what this call returns
call_peek_application_review_token(t, token) ==
    /\ th[t].pc = "idle"
    /\ IF token = NoToken
       THEN ReturnOp(t, BeginOp(t, "peek_application_review_token",
                                APPLICATION_REVIEW_TOKENS_PATH, <<token, "">>), {})
       ELSE /\ th' = [th EXCEPT ![t] =
                         call_sub_load(t, [BeginOp(t, "peek_application_review_token",
                                                   APPLICATION_REVIEW_TOKENS_PATH, <<token, "">>)
                                              EXCEPT !.after = "par_ret", !.tok = token],
                                       "lar_clean")]
            /\ UNCHANGED hist
    /\ UNCHANGED minted
    /\ Local

\* lines 1311-1312
par_ret(t) ==
    LET r == th[t] IN
    /\ r.pc = "par_ret"
    /\ ReturnOp(t, [r EXCEPT !.out = dict_get(r.doc, r.tok)], dict_get(r.doc, r.tok))
    /\ UNCHANGED minted
    /\ Local

\* what a request handler answers
NotFound == "Enlace caducado"
AlreadyUsed == "Solicitud ya revisada"
Processed == "Solicitud procesada"

\* mark_application_review_token_used, lines 1316-1329, after its load: the
\* record is marked whether or not it was marked before
mar_put(t) ==
    LET r == th[t]
        payload == [r.doc[r.tok] EXCEPT !.used = TRUE,
                                        !.used_decision = IF r.in[2] \in Decisions
                                                          THEN r.in[2] ELSE @,
                                        !.used_at = {now}]
        tokens == dict_put(r.doc, r.tok, payload)
    IN
    /\ r.pc = "mar_put"
    /\ IF r.tok \in DOMAIN r.doc
       THEN /\ th' = [th EXCEPT ![t] =
                         call_sub_save(t, [r EXCEPT !.doc = tokens, !.out = {payload}],
                                       tokens, "mar_ret")]
            /\ UNCHANGED hist
       ELSE /\ Goto(t, [r EXCEPT !.out = {}], "mar_ret")
            /\ UNCHANGED hist
    /\ UNCHANGED minted
    /\ Local

\* the applications document: a function from the ids of the applications to their
\* records, already normalised (lines 1138-1159)
APPLICATIONS_PATH == "applications"
Unavailable == "Solicitud no disponible"

\* line 1330, and lines 4232-4245 of the handler: without a target application
\* it answers; else it saves the applications
mar_ret(t) ==
    LET r == th[t] IN
    /\ r.pc = "mar_ret"
    /\ IF ~Followed(APPLICATIONS_PATH)
       THEN ReturnOp(t, r, {Processed})
       ELSE IF r.apps = {}
       THEN ReturnOp(t, r, {Unavailable})
       ELSE /\ \E applications \in r.apps :
                   th' = [th EXCEPT ![t] =
                             call_sub_save(t, [r EXCEPT !.key = APPLICATIONS_PATH],
                                           applications, "hc_notify")]
            /\ UNCHANGED hist
    /\ UNCHANGED minted
    /\ Local

\* ghost: the decision of the token was applied to the saved applications and its
\* notification was queued
Applied(token) ==
    ghost' = [ghost EXCEPT !.applied =
                 dict_put(@, token, IF token \in DOMAIN @ THEN 2 ELSE 1)]

\* lines 4246-4260: the mail settings are complete and enabled, the notification is
\* queued (notify_application_decision_async, lines 3875-3893) and the handler answers
hc_notify(t) ==
    LET r == th[t] IN
    /\ r.pc = "hc_notify"
    /\ ReturnOp(t, r, {Processed})
    /\ Applied(r.tok)
    /\ UNCHANGED minted
    /\ LocalStep

\* lines 4168-4184: a request with a token and a normalised decision peeks
call_handle_application_review_confirm(t, token, decision) ==
    /\ th[t].pc = "idle"
    /\ th' = [th EXCEPT ![t] =
                 call_sub_load(t, [BeginOp(t, "handle_application_review_confirm",
                                           APPLICATION_REVIEW_TOKENS_PATH, <<token, decision>>)
                                      EXCEPT !.after = "hc_peek", !.tok = token], "lar_clean")]
    /\ UNCHANGED <<minted, hist>>
    /\ Local

\* lines 4185-4211: not found, already used, or load the applications; where
\* the applications document is not followed the work on it, which touches no
\* token, is left out and the token is marked used (line 4230)
hc_peek(t) ==
    LET r == th[t]
        token_payload == dict_get(r.doc, r.tok)
        seen == [r EXCEPT !.out = token_payload]
    IN
    /\ r.pc = "hc_peek"
    /\ IF token_payload = {}
       THEN ReturnOp(t, seen, {NotFound})
       ELSE IF \E d \in token_payload : d.used
       THEN ReturnOp(t, seen, {AlreadyUsed})
       ELSE /\ th' = [th EXCEPT ![t] =
                         IF Followed(APPLICATIONS_PATH)
                         THEN Sub(seen, "load_json", APPLICATIONS_PATH, Obj(Arg(t), EmptyDict),
                                  "lj_cache", "hc_apply")
                         ELSE call_sub_load(t, [seen EXCEPT !.after = "mar_put"], "lar_clean")]
            /\ UNCHANGED hist
    /\ UNCHANGED minted
    /\ Local

\* lines 4212-4230: the decision is applied to the loaded applications (apps keeps
\* the result when the target application was found), then the token is marked used
hc_apply(t) ==
    LET r == th[t]
        applications == r.ret.val
        app_id == (CHOOSE d \in r.out : TRUE).app_id
        decided == IF r.in[2] = "approved"
                   THEN [applications EXCEPT ![app_id].approved = TRUE]
                   ELSE dict_without(applications, {app_id})
        applied == [r EXCEPT !.key = APPLICATION_REVIEW_TOKENS_PATH, !.after = "mar_put",
                             !.apps = IF app_id \in DOMAIN applications THEN {decided} ELSE {}]
    IN
    /\ r.pc = "hc_apply"
    /\ th' = [th EXCEPT ![t] = call_sub_load(t, applied, "lar_clean")]
    /\ UNCHANGED <<minted, hist>>
    /\ Local

handle_application_review_confirm(t) == hc_apply(t) \/ hc_notify(t)

application_review_tokens_confirm(t) ==
    \/ lar_clean(t) \/ mar_put(t) \/ mar_ret(t) \/ hc_peek(t)
    \/ handle_application_review_confirm(t)

application_review_tokens(t) ==
    \/ lar_clean(t) \/ car_put(t) \/ car_ret(t) \/ par_ret(t)
    \/ mar_put(t) \/ mar_ret(t) \/ hc_peek(t)

(***************************************************************************)
Mutated(o, id, v) == IF o.id = id THEN [o EXCEPT !.val = v] ELSE o

Mutate(t) ==
    /\ th[t].pc = "idle"
    /\ \E o \in {th[t].arg, th[t].ret} : \E v \in Docs :
          /\ ~IsNone(o)
          /\ o.val \in Docs \cup {OldDoc}
          /\ v # o.val
          /\ th' = [u \in Threads |->
                      [th[u] EXCEPT !.arg = Mutated(@, o.id, v), !.ret = Mutated(@, o.id, v),
                                    !.loaded = Mutated(@, o.id, v), !.payload = Mutated(@, o.id, v)]]
          /\ JSON_CACHE' = [k \in Keys |->
                              IF JSON_CACHE[k] # NoEntry
                              THEN <<JSON_CACHE[k][1], Mutated(JSON_CACHE[k][2], o.id, v)>>
                              ELSE NoEntry]
    /\ UNCHANGED <<config, minted, ghost, now, remote, local, DB_LAST_ERROR,
                   STORAGE_STATUS_CACHE, DATA_LOCK, JSON_CACHE_LOCK, hist, lastSet>>

(***************************************************************************)
(* The clock.                                                              *)
(***************************************************************************)
Tick ==
    /\ now < MaxTicks
    /\ now' = now + 1
    /\ UNCHANGED <<config, minted, ghost, remote, local, JSON_CACHE, JSON_CACHE_LOCK, DB_LAST_ERROR,
                   STORAGE_STATUS_CACHE, DATA_LOCK, th, hist, lastSet>>

\* the clock of the token lifecycles: all of a lifetime of ttl seconds but its last
\* second passes, or that last second passes
Pass(ttl) ==
    /\ \E d \in {1, ttl - 1} :
           /\ d = 1 => (now + 1) % ttl = 0
           /\ now + d <= MaxJumps * ttl
           /\ now' = now + d
    /\ UNCHANGED <<config, minted, ghost, remote, local, JSON_CACHE, JSON_CACHE_LOCK, DB_LAST_ERROR,
                   STORAGE_STATUS_CACHE, DATA_LOCK, th, hist, lastSet>>

(***************************************************************************)
(* Initial states.  The configuration is read from the environment once;   *)
(* either setting may be any value >= 0.                                   *)
(***************************************************************************)
\* the default of AURA_STORAGE_STATUS_TTL_SECONDS
StorageStatusTtlDefault == 30

InitCommon ==
    /\ DATABASE_URL \in {"", "postgres://db"}
    /\ JSON_CACHE_TTL_SECONDS \in 0..MaxTtl
    /\ now = 0
    /\ JSON_CACHE = [k \in Keys |-> NoEntry]
    /\ lastSet = [k \in Keys |-> NoEntry]
    /\ DB_LAST_ERROR = ""
    /\ STORAGE_STATUS_CACHE = <<>>
    /\ DATA_LOCK = 0
    /\ JSON_CACHE_LOCK = 0
    /\ minted = 0
    /\ ghost = NoGhost
    /\ th = [t \in Threads |-> IdleThread]
    /\ hist = <<NoCall, NoCall>>

(***************************************************************************)
(* SpecStore: the document store, one request thread, on the key "doc".    *)
(* At start there is no remote row; the local file is absent, unreadable,  *)
(* or holds the document an earlier run left.                              *)
(***************************************************************************)
InitStore ==
    /\ InitCommon
    /\ histOn = 2
    /\ ghostOn = {}
    /\ STORAGE_STATUS_CACHE_TTL_SECONDS = StorageStatusTtlDefault
    /\ remote = [k \in Keys |-> NoRow]
    /\ \E f \in {NoFile, Garbage, json_dumps(OldDoc)} :
           local = [k \in Keys |-> IF k = "doc" THEN f ELSE NoFile]

StoreCalls(t) ==
    \/ \E d \in Docs : call_load_json(t, "doc", d)
    \/ \E d \in Docs : call_save_json(t, "doc", d)
    \/ \E d \in Docs : call_seed_json_key(t, "doc", d)

StoreSteps(t) ==
    \/ load_json(t) \/ save_json(t) \/ save_json_local(t) \/ seed_json_key(t)

NextStore ==
    \/ StoreCalls(1)
    \/ StoreSteps(1)
    \/ Mutate(1)
    \/ Tick

SpecStore == InitStore /\ [][NextStore]_vars

(***************************************************************************)
(* SpecStatus: save_json and get_storage_status, one request thread.       *)
(***************************************************************************)
InitStatus ==
    /\ InitCommon
    /\ histOn = 2
    /\ ghostOn = {}
    /\ STORAGE_STATUS_CACHE_TTL_SECONDS \in 0..MaxTtl
    /\ remote = [k \in Keys |-> NoRow]
    /\ local = [k \in Keys |-> NoFile]

NextStatus ==
    \/ \E d \in Docs : call_save_json(1, "doc", d)
    \/ save_json(1) \/ save_json_local(1)
    \/ call_get_storage_status(1)
    \/ get_storage_status(1)
    \/ Tick

SpecStatus == InitStatus /\ [][NextStatus]_vars

(***************************************************************************)
(* SpecStoreConc: two request threads call load_json and save_json on the  *)
(* key "doc" concurrently.                                                 *)
(***************************************************************************)
InitStoreConc ==
    /\ InitCommon
    /\ histOn = 0
    /\ ghostOn = {}
    /\ STORAGE_STATUS_CACHE_TTL_SECONDS = StorageStatusTtlDefault
    /\ remote = [k \in Keys |-> NoRow]
    /\ \E f \in {NoFile, Garbage} :
           local = [k \in Keys |-> IF k = "doc" THEN f ELSE NoFile]

NextStoreConc ==
    \E t \in Threads :
        \/ call_load_json(t, "doc", OldDoc)
        \/ \E d \in Docs : call_save_json(t, "doc", d)
        \/ load_json(t) \/ save_json(t) \/ save_json_local(t)
        \/ Tick

SpecStoreConc == InitStoreConc /\ [][NextStoreConc]_vars

(***************************************************************************)
(* SpecSeedConc: a request thread runs seed_json_key (reached from         *)
(* enforce_admin_credentials, lines 867, 4569 and 4614) while another      *)
(* thread saves and loads the same document.  At start the remote has no   *)
(* row; the local file is absent, unreadable or holds an earlier document. *)
(***************************************************************************)
InitSeedConc ==
    /\ InitCommon
    /\ histOn = 0
    /\ ghostOn = {}
    /\ STORAGE_STATUS_CACHE_TTL_SECONDS = StorageStatusTtlDefault
    /\ remote = [k \in Keys |-> NoRow]
    /\ \E f \in {NoFile, Garbage, json_dumps(OldDoc)} :
           local = [k \in Keys |-> IF k = "doc" THEN f ELSE NoFile]

NextSeedConc ==
    \/ call_seed_json_key(1, "doc", OldDoc)
    \/ \E d \in Docs : call_save_json(2, "doc", d)
    \/ call_load_json(2, "doc", OldDoc)
    \/ \E t \in Threads :
           \/ seed_json_key(t)
           \/ load_json(t) \/ save_json(t) \/ save_json_local(t)

SpecSeedConc == InitSeedConc /\ [][NextSeedConc]_vars

(***************************************************************************)
(* The token documents at start: ensure_data_files has seeded the empty    *)
(* document, in the remote table when a remote is configured and else in   *)
(* the local file, unless an unreadable local file was already there.      *)
(***************************************************************************)
InitSeededGhost(key, depth, facts) ==
    /\ InitCommon
    /\ histOn = depth
    /\ ghostOn = facts
    /\ STORAGE_STATUS_CACHE_TTL_SECONDS = StorageStatusTtlDefault
    /\ remote = [k \in Keys |-> IF k = key /\ db_enabled THEN json_dumps(EmptyDict) ELSE NoRow]
    /\ \E f \in {IF db_enabled THEN NoFile ELSE json_dumps(EmptyDict), Garbage} :
           local = [k \in Keys |-> IF k = key THEN f ELSE NoFile]

InitSeeded(key, depth) == InitSeededGhost(key, depth, {})

(***************************************************************************)
(* SpecReset: the password-reset tokens, one request thread.               *)
(***************************************************************************)
InitReset == InitSeeded(PASSWORD_RESETS_PATH, 2)

NextReset ==
    \/ \E who \in Pairs : call_create_password_reset_token(1, who)
    \/ \E token \in Tokens : call_peek_password_reset_token(1, token)
    \/ \E token \in Tokens : call_consume_password_reset_token(1, token)
    \/ password_resets(1)
    \/ load_json(1) \/ save_json(1) \/ save_json_local(1)
    \/ Pass(RESET_TOKEN_TTL)

SpecReset == InitReset /\ [][NextReset]_vars

(***************************************************************************)
(* SpecSession: the sessions, one request thread.                          *)
(***************************************************************************)
Roles == {"admin", "user"}

InitSession == InitSeededGhost(SESSIONS_PATH, 1, {"read"})

NextSession ==
    \/ \E role \in Roles : call_create_session(1, "alice", role)
    \/ \E token \in Tokens : call_delete_session(1, token)
    \/ \E token \in Tokens \cup {NoToken}, role \in Roles : call_get_session_user(1, token, role)
    \/ sessions_steps(1)
    \/ load_json(1) \/ save_json(1) \/ save_json_local(1)
    \/ Pass(SESSION_TTL)

SpecSession == InitSession /\ [][NextSession]_vars

(***************************************************************************)
(* SpecSessionConc: two request threads create, delete and look up         *)
(* sessions concurrently; the clock stands still.                          *)
(***************************************************************************)
InitSessionConc == InitSeededGhost(SESSIONS_PATH, 1, {"revoked"})

\* the tokens a request can present: those create_session has returned
Issued ==
    {x \in 1..minted : \A u \in Threads : ~(th[u].op = "create_session" /\ th[u].tok = x)}

\* thread 1 serves the requests that log out and look up, thread 2 those that log in
NextSessionConc ==
    \/ \E token \in Issued : call_delete_session(1, token)
    \/ \E token \in Issued : call_get_session_user(1, token, "user")
    \/ call_create_session(2, "alice", "user")
    \/ \E t \in Threads :
           \/ sessions_steps(t)
           \/ load_json(t) \/ save_json(t) \/ save_json_local(t)

SpecSessionConc == InitSessionConc /\ [][NextSessionConc]_vars

(***************************************************************************)
(* SpecReview: the application-review tokens, one request thread.          *)
(***************************************************************************)
InitReview == InitSeeded(APPLICATION_REVIEW_TOKENS_PATH, 0)

NextReview ==
    \/ \E app_id \in Apps \cup {""} : call_create_application_review_token(1, app_id)
    \/ \E token \in Tokens \cup {NoToken} : call_peek_application_review_token(1, token)
    \/ \E token \in Tokens, decision \in Decisions :
           call_handle_application_review_confirm(1, token, decision)
    \/ application_review_tokens(1)
    \/ load_json(1) \/ save_json(1) \/ save_json_local(1)
    \/ Pass(APPLICATION_REVIEW_TOKEN_TTL)

SpecReview == InitReview /\ [][NextReview]_vars

(***************************************************************************)
(* SpecGrant: review grants are created and looked up, one request thread. *)
(***************************************************************************)
InitGrant == InitSeeded(APPLICATION_REVIEW_TOKENS_PATH, 2)

NextGrant ==
    \/ \E app_id \in Apps : call_create_application_review_token(1, app_id)
    \/ \E token \in Tokens : call_peek_application_review_token(1, token)
    \/ lar_clean(1) \/ car_put(1) \/ car_ret(1) \/ par_ret(1)
    \/ load_json(1) \/ save_json(1) \/ save_json_local(1)
    \/ Pass(APPLICATION_REVIEW_TOKEN_TTL)

SpecGrant == InitGrant /\ [][NextGrant]_vars

(***************************************************************************)
(* SpecLookup: one request thread creates and looks up the tokens of one   *)
(* of the three token documents; the ghost follows that document.          *)
(***************************************************************************)
TokenPaths == {SESSIONS_PATH, PASSWORD_RESETS_PATH, APPLICATION_REVIEW_TOKENS_PATH}

InitLookup == \E key \in TokenPaths : InitSeededGhost(key, 2, {"expiry", "read", key})

NextLookup ==
    \/ /\ Followed(SESSIONS_PATH)
       /\ \/ call_create_session(1, "alice", "user")
          \/ \E token \in Tokens \cup {NoToken} : call_get_session_user(1, token, "user")
          \/ cs_put(1) \/ cs_ret(1) \/ gs_clean(1) \/ gs_ret(1)
          \/ Pass(SESSION_TTL)
    \/ /\ Followed(PASSWORD_RESETS_PATH)
       /\ \/ call_create_password_reset_token(1, <<"alice", "a@x.com">>)
          \/ \E token \in Tokens : call_peek_password_reset_token(1, token)
          \/ \E token \in Tokens : call_consume_password_reset_token(1, token)
          \/ password_resets(1)
          \/ Pass(RESET_TOKEN_TTL)
    \/ /\ Followed(APPLICATION_REVIEW_TOKENS_PATH)
       /\ \/ call_create_application_review_token(1, "a1")
          \/ \E token \in Tokens \cup {NoToken} : call_peek_application_review_token(1, token)
          \/ lar_clean(1) \/ car_put(1) \/ car_ret(1) \/ par_ret(1)
          \/ Pass(APPLICATION_REVIEW_TOKEN_TTL)
    \/ load_json(1) \/ save_json(1) \/ save_json_local(1)

SpecLookup == InitLookup /\ [][NextLookup]_vars

(***************************************************************************)
(* SpecReviewConc: two request threads create, look up and use review      *)
(* tokens concurrently; the clock stands still.                            *)
(***************************************************************************)
InitReviewConc == InitSeeded(APPLICATION_REVIEW_TOKENS_PATH, 0)

\* the review tokens a request can present: those the mail of a created grant carries
Mailed ==
    {x \in 1..minted :
        \A u \in Threads : ~(th[u].op = "create_application_review_token" /\ th[u].tok = x)}

\* thread 1 serves the requests that look up and approve, thread 2 those that
\* create (grants of one application) and reject
NextReviewConc ==
    \/ \E token \in Mailed : call_peek_application_review_token(1, token)
    \/ \E token \in Mailed : call_handle_application_review_confirm(1, token, "approved")
    \/ call_create_application_review_token(2, "a1")
    \/ \E token \in Mailed : call_handle_application_review_confirm(2, token, "rejected")
    \/ \E t \in Threads :
           \/ application_review_tokens(t)
           \/ load_json(t) \/ save_json(t) \/ save_json_local(t)

SpecReviewConc == InitReviewConc /\ [][NextReviewConc]_vars

(***************************************************************************)
(* SpecCreateConc: two request threads log in (create_session) at the same *)
(* time; the clock stands still.                                           *)
(***************************************************************************)
InitCreateConc == InitSeeded(SESSIONS_PATH, 2)

NextCreateConc ==
    \E t \in Threads :
        \/ call_create_session(t, "alice", "user")
        \/ cs_put(t) \/ cs_ret(t)
        \/ load_json(t) \/ save_json(t) \/ save_json_local(t)

SpecCreateConc == InitCreateConc /\ [][NextCreateConc]_vars

(***************************************************************************)
(* SpecConsumeConc: a reset token is created, then two request threads     *)
(* present it (consume_password_reset_token) at the same time; the clock   *)
(* stands still.                                                           *)
(***************************************************************************)
InitConsumeConc == InitSeeded(PASSWORD_RESETS_PATH, 2)

\* the reset tokens a request can present: those the mail of a created grant carries
Sent ==
    {x \in 1..minted :
        \A u \in Threads : ~(th[u].op = "create_password_reset_token" /\ th[u].tok = x)}

NextConsumeConc ==
    \/ call_create_password_reset_token(2, <<"alice", "a@x.com">>)
    \/ \E t \in Threads :
           \/ \E token \in Sent : call_consume_password_reset_token(t, token)
           \/ lpr_clean(t) \/ cpr_put(t) \/ cpr_ret(t) \/ cons_pop(t) \/ cons_ret(t)
           \/ load_json(t) \/ save_json(t) \/ save_json_local(t)

SpecConsumeConc == InitConsumeConc /\ [][NextConsumeConc]_vars

(***************************************************************************)
(* SpecConfirmConc: an application has been submitted and its review token *)
(* mailed; two request threads confirm a decision with that token at the   *)
(* same time.  The clock stands still.  With a remote, the local files are *)
(* absent or unreadable.                                                   *)
(***************************************************************************)
Submitted ==
    [application_review_tokens |->
         json_dumps([x \in {1} |-> [app_id |-> "a1",
                                    expires_at |-> APPLICATION_REVIEW_TOKEN_TTL,
                                    used |-> FALSE, used_decision |-> "", used_at |-> {}]]),
     applications |-> json_dumps([x \in {"a1"} |-> [approved |-> FALSE]])]

InitConfirmConc ==
    /\ InitCommon
    /\ histOn = 0
    /\ ghostOn = {APPLICATIONS_PATH}
    /\ STORAGE_STATUS_CACHE_TTL_SECONDS = StorageStatusTtlDefault
    /\ remote = [k \in Keys |-> IF k \in DOMAIN Submitted /\ db_enabled
                                THEN Submitted[k] ELSE NoRow]
    /\ \E f \in {NoFile, Garbage} :
           local = [k \in Keys |-> IF k \notin DOMAIN Submitted THEN NoFile
                                   ELSE IF db_enabled THEN f ELSE Submitted[k]]

NextConfirmConc ==
    \E t \in Threads :
        \/ \E decision \in Decisions : call_handle_application_review_confirm(t, 1, decision)
        \/ application_review_tokens_confirm(t)
        \/ load_json(t) \/ save_json(t) \/ save_json_local(t)

SpecConfirmConc == InitConfirmConc /\ [][NextConfirmConc]_vars

(***************************************************************************)
(* SpecForgot: one request thread serves forgotten-password requests and   *)
(* the reset requests that present the tokens.                             *)
(***************************************************************************)
InitForgot == InitSeededGhost(PASSWORD_RESETS_PATH, 1, {"revoked"})

NextForgot ==
    \/ \E who \in Pairs : call_handle_password_forgot(1, who)
    \/ \E token \in 1..minted : call_peek_password_reset_token(1, token)
    \/ \E token \in 1..minted : call_consume_password_reset_token(1, token)
    \/ handle_password_forgot(1)
    \/ lpr_clean(1) \/ cpr_put(1) \/ ppr_ret(1) \/ cons_pop(1) \/ cons_ret(1)
    \/ load_json(1) \/ save_json(1) \/ save_json_local(1)
    \/ Pass(RESET_TOKEN_TTL)

SpecForgot == InitForgot /\ [][NextForgot]_vars

(***************************************************************************)
(* SpecStatusConc: two request threads ask for the storage status.         *)
(***************************************************************************)
InitStatusConc ==
    /\ InitCommon
    /\ histOn = 0
    /\ ghostOn = {"probe"}
    /\ STORAGE_STATUS_CACHE_TTL_SECONDS \in 0..MaxTtl
    /\ remote = [k \in Keys |-> NoRow]
    /\ local = [k \in Keys |-> NoFile]

NextStatusConc ==
    \/ \E t \in Threads :
           \/ call_get_storage_status(t)
           \/ get_storage_status(t)
    \/ Tick

SpecStatusConc == InitStatusConc /\ [][NextStatusConc]_vars

(***************************************************************************)
(* SpecConsumed: the password-reset tokens, one request thread, following  *)
(* which tokens a consume has returned.                                    *)
(***************************************************************************)
InitConsumed == InitSeededGhost(PASSWORD_RESETS_PATH, 1, {"consumed"})

SpecConsumed == InitConsumed /\ [][NextReset]_vars

(***************************************************************************)
(* SpecLocks: two request threads call load_json, save_json and            *)
(* seed_json_key on the key "doc", with the taking of JSON_CACHE_LOCK as a *)
(* step; the clock stands still.  The scheduler runs every thread that can *)
(* run, and a thread that waits for a lock which is released again and     *)
(* again gets it at some time: strong fairness of each thread's steps.     *)
(***************************************************************************)
InitLocks ==
    /\ InitCommon
    /\ histOn = 0
    /\ ghostOn = {}
    /\ STORAGE_STATUS_CACHE_TTL_SECONDS = StorageStatusTtlDefault
    /\ remote = [k \in Keys |-> NoRow]
    /\ \E f \in {NoFile, Garbage, json_dumps(OldDoc)} :
           local = [k \in Keys |-> IF k = "doc" THEN f ELSE NoFile]

LockCalls(t) ==
    \/ call_load_json(t, "doc", OldDoc)
    \/ call_save_json(t, "doc", "D1")
    \/ call_seed_json_key(t, "doc", OldDoc)

LockSteps(t) ==
    \/ load_json(t) \/ save_json(t) \/ save_json_local(t) \/ seed_json_key(t)
    \/ cache_lock(t)

NextLocks ==
    \E t \in Threads :
        \/ LockCalls(t)
        \/ LockSteps(t)

SpecLocks ==
    /\ InitLocks
    /\ [][NextLocks]_vars
    /\ \A t \in Threads : SF_vars(LockSteps(t))

(***************************************************************************)
(* Claims about the store.                                                 *)
(***************************************************************************)
Last == hist[2]
First == hist[1]

\* the last two completed calls are op1 then op2, and no call is in progress
Succession(op1, op2) ==
    /\ th[1].pc = "idle"
    /\ First.op = op1
    /\ Last.op = op2

\* seed(key, D1) then seed(key, D2), D1 # D2, on a key that had no stored document
SeedTwice ==
    /\ Succession("seed_json_key", "seed_json_key")
    /\ First.arg # Last.arg
    /\ IF db_enabled THEN First.pre[2] = NoRow ELSE First.pre[1] = NoFile

\* the document the backend in use stores: the remote row, or the local file
StoredDoc(k) == IF db_enabled THEN remote[k] ELSE local[k]

\* C3 as stated: after seed(key, D1); seed(key, D2) on a key with no stored
\* document the stored document is D1, on both backends, whatever the local
\* file contains (here with both remote inserts succeeding).
C3_SeedKeepsFirstDefault ==
    (SeedTwice /\ ~First.failed /\ ~Last.failed)
        => StoredDoc("doc") = json_dumps(First.arg)

\* what seed_json_key(key, default) takes as the payload of its remote insert:
\* the content of the local file when it is readable, else the default
SeedPayload(file, default) == IF IsJson(file) THEN file ELSE json_dumps(default)

\* what seed_json_key(key, default) leaves in the local file on the local backend
SeedLocal(file, default) == IF file = NoFile THEN json_dumps(default) ELSE file

\* C3 amended: after seed(key, D1); seed(key, D2) on a key with no stored
\* document, the stored document is D1 when the remote backend is disabled.
\* When it is enabled, the remote row is the payload of the first seed whose
\* insert succeeded, and that payload is the content of the key's local file
\* when the file is readable and the seed's own default otherwise; a second
\* insert never changes the row of the first.
C3_SeedIdempotent ==
    SeedTwice =>
        StoredDoc("doc") =
            IF ~db_enabled THEN json_dumps(First.arg)
            ELSE IF ~First.failed THEN SeedPayload(First.pre[1], First.arg)
            ELSE IF ~Last.failed
                 THEN SeedPayload(SeedLocal(First.pre[1], First.arg), Last.arg)
            ELSE NoRow

C3_Witness ==
    /\ SeedTwice
    /\ db_enabled
    /\ ~First.failed
    /\ IsJson(First.pre[1])
    /\ First.pre[1] # json_dumps(First.arg)
    /\ First.pre[1] # json_dumps(Last.arg)

\* C4: save_json(key, D) followed by load_json(key, default) returns D, in
\* every mode, for every cache TTL and every pattern of remote failures.
C4_RoundTrip ==
    Succession("save_json", "load_json") => Last.ret = First.arg

\* C5: when the remote write of save_json(key, D) fails, D is in the local
\* file when the call returns, and a following get_storage_status() reports
\* db_error.
C5_RemoteFallbackStatus ==
    (Succession("save_json", "get_storage_status") /\ First.failed)
        => /\ local["doc"] = json_dumps(First.arg)
           /\ Last.ret = "db_error"

\* the places of load_json, save_json and seed_json_key on the local backend
LocalPath ==
    {"lj_exists", "lj_default", "lj_lock", "lj_read_cache", "lj_corrupt",
     "sl_open", "sl_dump", "sj_cache", "sk_local", "sk_cache"}

\* what the local backend alone gives for the completed call e
LocalResult(e) ==
    CASE e.op = "load_json" ->
           e.ret = IF IsJson(local[e.key]) THEN json_loads(local[e.key]) ELSE e.arg
      [] e.op = "save_json" ->
           local[e.key] = json_dumps(e.arg)
      [] e.op = "seed_json_key" ->
           local[e.key] = IF e.pre[1] = NoFile THEN json_dumps(e.arg) ELSE e.pre[1]
      [] OTHER -> TRUE

\* C6: with the remote backend enabled, a call is on the local backend
\* exactly when its own remote operation failed (an earlier call's failure
\* does not keep a later call from the remote backend); the failure is
\* recorded in DB_LAST_ERROR, and the call returns what the local backend
\* gives.
C6_RemoteFailureAbsorbed ==
    DATABASE_URL # "" =>
        /\ \A t \in Threads :
              /\ (th[t].pc \in LocalPath) <=> th[t].failed
              /\ th[t].failed => DB_LAST_ERROR = "error"
        /\ (th[1].pc = "idle" /\ Last.failed) => LocalResult(Last)

C6_Witness ==
    /\ DATABASE_URL # ""
    /\ JSON_CACHE_TTL_SECONDS = 0
    /\ Succession("save_json", "load_json")
    /\ First.failed
    /\ ~Last.failed
    /\ Last.ret # First.arg

\* C7: with a positive TTL, cache_get_json(key) at time t after the last
\* cache_set_json(key, V) at time t0 returns V when t - t0 <= TTL, and
\* returns None and removes the entry when t - t0 > TTL.
C7_CacheTtl ==
    [][\A t \in Threads :
          LET k == th[t].key IN
          (/\ th[t].pc = "lj_cache"
           /\ th'[t].pc # "lj_cache"
           /\ JSON_CACHE_TTL_SECONDS > 0
           /\ lastSet[k] # NoEntry)
          => IF now - lastSet[k][1] <= JSON_CACHE_TTL_SECONDS
             THEN /\ th'[t].pc = th[t].cont
                  /\ ~IsNone(th'[t].ret)
                  /\ th'[t].ret.val = lastSet[k][2]
                  /\ JSON_CACHE'[k] = JSON_CACHE[k]
             ELSE /\ th'[t].pc \in {"lj_db", "lj_exists"}
                  /\ JSON_CACHE'[k] = NoEntry]_vars

\* an entry was set and has been removed by a get after its TTL
C7_Witness ==
    /\ JSON_CACHE_TTL_SECONDS > 0
    /\ th[1].pc \in {"lj_db", "lj_exists"}
    /\ ~th[1].failed
    /\ lastSet["doc"] # NoEntry
    /\ JSON_CACHE["doc"] = NoEntry
    /\ now - lastSet["doc"][1] = JSON_CACHE_TTL_SECONDS + 1

\* C8: whatever a caller does to an object it passed to the store or
\* received from it, the cache entry of a key keeps the value and the time
\* of the last cache_set_json for that key.
C8_CacheIsolation ==
    \A k \in Keys :
        JSON_CACHE[k] # NoEntry =>
            /\ JSON_CACHE[k][1] = lastSet[k][1]
            /\ JSON_CACHE[k][2].val = lastSet[k][2]

\* the caller has changed the object it saved, and then the object a load
\* gave it from the cache
C8_Witness ==
    /\ Succession("save_json", "load_json")
    /\ JSON_CACHE["doc"] # NoEntry
    /\ Last.ret = First.arg
    /\ ~IsNone(th[1].ret)
    /\ th[1].ret.val # Last.ret
    /\ JSON_CACHE["doc"][2].val = First.arg

\* C9: a thread that has completed save_json(key, V) gets V from its next
\* load_json(key) whenever no other save_json on that key started after its
\* own save began (here in the runs in which no remote operation has failed).
C9_ReadYourWrites ==
    \A t \in Threads :
        (/\ DB_LAST_ERROR = ""
         /\ th[t].pc = "idle"
         /\ th[t].mine # "none"
         /\ ~IsNone(th[t].ret))
            => th[t].ret.val = th[t].mine

(***************************************************************************)
(* Claims about the password-reset tokens and the sessions.                *)
(***************************************************************************)
\* C1: when consume_password_reset_token(t) is called twice in succession
\* with no other operation in between and the first call returns the grant,
\* the second call returns None, even though expires_at has not passed.
C1_ConsumeTwice ==
    (/\ Succession("consume_password_reset_token", "consume_password_reset_token")
     /\ First.arg = Last.arg
     /\ First.ret # {})
        => Last.ret = {}

\* the tokens of the document text that are not expired, per pair
LiveOfPair(text, who) ==
    IF IsJson(text)
    THEN {x \in DOMAIN json_loads(text) :
              /\ json_loads(text)[x].expires_at > now
              /\ lower(json_loads(text)[x].username) = lower(who[1])
              /\ lower(json_loads(text)[x].email) = lower(who[2])}
    ELSE {}

\* the first half of C2: every stored password_resets document holds at most
\* one unexpired grant per (username, email) pair
OneGrantPerPair ==
    \A who \in Pairs :
        /\ Cardinality(LiveOfPair(remote[PASSWORD_RESETS_PATH], who)) <= 1
        /\ Cardinality(LiveOfPair(local[PASSWORD_RESETS_PATH], who)) <= 1

\* C2: the password_resets document holds at most one unexpired grant per
\* (username, email) pair, and once create_password_reset_token(u, e) has
\* returned, an older token of the pair (u, e) is unknown to peek and
\* consume: the next peek or consume of it returns None.
C2_SingleGrant ==
    /\ OneGrantPerPair
    /\ \A op \in {"peek_password_reset_token", "consume_password_reset_token"} :
           (/\ Succession("create_password_reset_token", op)
            /\ {Last.arg} # First.ret)
               => \A grant \in Last.ret :
                      \/ lower(grant.username) # lower(First.arg[1])
                      \/ lower(grant.email) # lower(First.arg[2])

\* C10: when the stored sessions document contains an expired entry before
\* create_session, delete_session or a get_session_user that reads the
\* document, it contains none of them after the operation has returned (here
\* in the runs in which no remote operation has failed).
C10_ReadsPrune ==
    (/\ th[1].pc = "idle"
     /\ DB_LAST_ERROR = ""
     /\ Last.op \in {"create_session", "delete_session", "get_session_user"}
     /\ Last.op = "get_session_user" => Last.arg[1] # NoToken
     /\ IsJson(StoredDoc(SESSIONS_PATH)))
        => Last.pre \cap DOMAIN json_loads(StoredDoc(SESSIONS_PATH)) = {}

SessionRecords(text) ==
    IF IsJson(text) THEN {json_loads(text)[x] : x \in DOMAIN json_loads(text)} ELSE {}

\* C20: every stored session record has a role in {admin, user}, and
\* get_session_user with a role argument returns a user only when the live
\* session of the token has exactly that role; the user is that session's.
C20_RoleMatches ==
    /\ \A d \in SessionRecords(remote[SESSIONS_PATH]) \cup SessionRecords(local[SESSIONS_PATH]) :
           d.role \in {"admin", "user"}
    /\ (/\ th[1].pc = "idle"
        /\ Last.op = "get_session_user"
        /\ Last.arg[2] # ""
        /\ Last.ret # {})
           => \A d \in Last.rec : d.role = Last.arg[2] /\ Last.ret = {d.user}

\* a live session of one role was presented for the other role and refused
C20_Witness ==
    /\ th[1].pc = "idle"
    /\ Last.op = "get_session_user"
    /\ \E d \in Last.rec : d.role # Last.arg[2] /\ d.expires > now
    /\ Last.ret = {}

\* C12: once delete_session(t) has returned, no get_session_user call that
\* begins later and presents t returns a user, whatever other requests do
\* concurrently (here in the runs in which no remote operation has failed).
C12_RevokedStaysRevoked ==
    (/\ DB_LAST_ERROR = ""
     /\ Last.op = "get_session_user"
     /\ Last.arg[1] \in Last.gone)
        => Last.ret = {}

\* C13: peek_password_reset_token(t) does not consume: when a peek has
\* returned the grant of t, a consume_password_reset_token(t) that follows
\* it while the grant is still within its lifetime returns that record.
C13_PeekKeeps ==
    (/\ Succession("peek_password_reset_token", "consume_password_reset_token")
     /\ First.arg = Last.arg
     /\ First.ret # {}
     /\ \A d \in First.ret : d.expires_at > now)
        => Last.ret = First.ret

\* C18: a load_json(key, d) on a key that has no remote row and whose local
\* file is missing or is not JSON returns d, the default of that very call,
\* whatever defaults earlier loads of the key were given.
C18_DefaultReturned ==
    (/\ th[1].pc = "idle"
     /\ Last.op = "load_json"
     /\ remote[Last.key] = NoRow
     /\ local[Last.key] \in {NoFile, Garbage})
        => Last.ret = Last.arg

\* C19: no read of a local document file overlaps a write of it: whenever a
\* thread of load_json or seed_json_key is at the point of opening the file
\* for reading, no writer has the file open (truncated, not yet written).
C19_ReadsUnderLock ==
    \A t \in Threads :
        (\/ th[t].pc = "sk_read"
         \/ th[t].pc = "lj_lock" /\ DATA_LOCK = 0)
            => local[th[t].key] # Truncated

\* the records of the tokens marked used in a stored document
UsedIn(text) ==
    IF IsJson(text)
    THEN [x \in {y \in DOMAIN json_loads(text) : json_loads(text)[y].used} |-> json_loads(text)[x]]
    ELSE EmptyDict

\* a stored document keeps, for every token marked used that stays in it, the
\* recorded decision
DecisionKept(text, next) ==
    \A x \in DOMAIN UsedIn(text) \cap DOMAIN UsedIn(next) :
        UsedIn(next)[x].used_decision = UsedIn(text)[x].used_decision

\* C14: once a review token is marked used with a decision, no later use of
\* the token, whatever its decision, overwrites the recorded decision (here
\* in the runs in which no remote operation has failed).
C14_DecisionKept ==
    [][DB_LAST_ERROR' = "" =>
          /\ DecisionKept(remote[APPLICATION_REVIEW_TOKENS_PATH],
                          remote'[APPLICATION_REVIEW_TOKENS_PATH])
          /\ DecisionKept(local[APPLICATION_REVIEW_TOKENS_PATH],
                          local'[APPLICATION_REVIEW_TOKENS_PATH])]_vars

\* a stored document keeps every token marked used that has not expired
UsedKept(text, next) ==
    \A x \in DOMAIN UsedIn(text) :
        (UsedIn(text)[x].expires_at > now' /\ IsJson(next)) => x \in DOMAIN UsedIn(next)

\* C15: a review grant marked used is retained: no operation on the review
\* tokens removes its record from the stored document before it expires
\* (here in the runs in which no remote operation has failed).
C15_UsedRetained ==
    [][DB_LAST_ERROR' = "" =>
          /\ UsedKept(remote[APPLICATION_REVIEW_TOKENS_PATH],
                      remote'[APPLICATION_REVIEW_TOKENS_PATH])
          /\ UsedKept(local[APPLICATION_REVIEW_TOKENS_PATH],
                      local'[APPLICATION_REVIEW_TOKENS_PATH])]_vars

\* the unexpired grants of app_id in a stored document
LiveOfApp(text, app_id) ==
    IF IsJson(text)
    THEN {x \in DOMAIN json_loads(text) :
              /\ json_loads(text)[x].expires_at > now
              /\ json_loads(text)[x].app_id = app_id}
    ELSE {}

\* the first half of C16: every stored application_review_tokens document
\* holds at most one unexpired grant per app_id
OneGrantPerApp ==
    \A app_id \in Apps :
        /\ Cardinality(LiveOfApp(remote[APPLICATION_REVIEW_TOKENS_PATH], app_id)) <= 1
        /\ Cardinality(LiveOfApp(local[APPLICATION_REVIEW_TOKENS_PATH], app_id)) <= 1

\* C16: the application_review_tokens document holds at most one unexpired
\* grant per app_id, and creating a grant for an app_id removes every other
\* grant of that app_id: once create_application_review_token(a) has
\* returned, the next peek of another token returns no grant of a.
C16_OneGrantPerApp ==
    /\ OneGrantPerApp
    /\ (/\ Succession("create_application_review_token", "peek_application_review_token")
        /\ {Last.arg[1]} # First.ret)
           => \A grant \in Last.ret : grant.app_id # First.arg

\* the lookups of the three token families, and the token a completed one presented
Lookups ==
    {"get_session_user", "peek_password_reset_token", "consume_password_reset_token",
     "peek_application_review_token"}

Presented(e) ==
    IF e.op \in {"get_session_user", "peek_application_review_token"} THEN e.arg[1] ELSE e.arg

\* the token was never made
Unknown(token) == token \notin DOMAIN ghost.expiry

\* the token was made and its lifetime was over at the time at
ExpiredAt(token, at) == token \in DOMAIN ghost.expiry /\ ghost.expiry[token] <= at

\* the completed lookup e presented an expired or a never-made token
Dead(e) == Unknown(Presented(e)) \/ ExpiredAt(Presented(e), e.at)

\* C17: a lookup that presents an expired token and a lookup that presents a
\* token that never existed give the caller the same result, None, in each
\* of the three token families.
C17_ExpiredAsUnknown ==
    th[1].pc = "idle" =>
        \A e \in {First, Last} : (e.op \in Lookups /\ Dead(e)) => e.ret = {}

\* the same lookup was made with an expired token whose record was still
\* stored and then with a token never made
C17_Witness ==
    /\ th[1].pc = "idle"
    /\ First.op \in Lookups
    /\ Last.op = First.op
    /\ ExpiredAt(Presented(First), First.at)
    /\ Presented(First) \in First.pre
    /\ Presented(Last) # NoToken
    /\ Unknown(Presented(Last))
    /\ Last.ret = First.ret

\* C21: a save of create_session replaces the stored sessions document (the
\* remote row, or the local file it falls back to) by the document the call
\* built from what it loaded, whatever another call has saved since that
\* load: the save that comes last wins.
C21_LastSaveWins ==
    [][\A t \in Threads :
          th[t].op = "create_session" =>
              /\ (th[t].pc = "sj_db" /\ th'[t].pc = "sj_db_cache")
                     => remote'[SESSIONS_PATH] = json_dumps(th[t].doc)
              /\ (th[t].pc = "sl_dump" /\ th'[t].pc # "sl_dump")
                     => local'[SESSIONS_PATH] = json_dumps(th[t].doc)]_vars

\* two concurrent create_session calls have both returned a token, no remote
\* operation has failed, and the stored document holds one of the two tokens
C21_Witness ==
    /\ \A t \in Threads : th[t].pc = "idle"
    /\ First.op = "create_session" /\ Last.op = "create_session"
    /\ First.ret \cup Last.ret = {1, 2}
    /\ DB_LAST_ERROR = ""
    /\ IsJson(StoredDoc(SESSIONS_PATH))
    /\ Cardinality(DOMAIN json_loads(StoredDoc(SESSIONS_PATH))) = 1

\* C22: of the consume_password_reset_token(t) calls that request threads
\* make concurrently, at most one returns the grant record (here in the runs
\* in which no remote operation has failed).
C22_OneConsumer ==
    (/\ DB_LAST_ERROR = ""
     /\ First.op = "consume_password_reset_token"
     /\ Last.op = "consume_password_reset_token"
     /\ First.arg = Last.arg)
        => (First.ret = {} \/ Last.ret = {})

\* C23: under any interleaving of concurrent confirm requests that carry the
\* same review token, the decision is applied to the applications document
\* and its notification queued at most once (here in the runs in which no
\* remote operation has failed).
C23_AppliedOnce ==
    DB_LAST_ERROR = "" => \A token \in DOMAIN ghost.applied : ghost.applied[token] <= 1

\* C24: without a remote, seed_json_key never overwrites a document written by
\* save_json: once a save_json(key, V) and every concurrent call have
\* returned, the local file holds V and the saver's next load_json returns V.
C24_SeedKeepsSave ==
    \A t \in Threads :
        (/\ DATABASE_URL = ""
         /\ \A u \in Threads : th[u].pc = "idle"
         /\ th[t].mine # "none")
            => /\ local["doc"] = json_dumps(th[t].mine)
               /\ ~IsNone(th[t].ret) => th[t].ret.val = th[t].mine

\* C25: when handle_password_forgot has minted a reset token and the
\* notification has failed, the token is revoked when the handler returns:
\* a later peek or consume of it returns None, and the stored document holds
\* no live grant of the pair the request named.
C25_RevokedOnFailure ==
    /\ (/\ Last.op \in {"peek_password_reset_token", "consume_password_reset_token"}
        /\ Last.arg \in Last.gone)
           => Last.ret = {}
    /\ (/\ \A t \in Threads : th[t].pc = "idle"
        /\ Last.op = "handle_password_forgot"
        /\ Last.ret = {ResetNotSent})
           => LiveOfPair(StoredDoc(PASSWORD_RESETS_PATH), Last.arg) = {}

\* C26: with the remote enabled and a positive status TTL, get_storage_status
\* probes at most once per TTL window, also under concurrent calls: between
\* the probes of two calls that have probed and not yet returned, at least
\* the status TTL has elapsed.
C26_OneProbePerWindow ==
    \A t, u \in Threads :
        (/\ db_enabled
         /\ STORAGE_STATUS_CACHE_TTL_SECONDS > 0
         /\ t # u
         /\ th[t].pc = "st_store" /\ th[u].pc = "st_store"
         /\ th[t].at <= th[u].at)
            => th[u].at - th[t].at >= STORAGE_STATUS_CACHE_TTL_SECONDS

\* C27: whenever no load_json, save_json or seed_json_key call is in progress
\* on a key, an unexpired cache entry for the key equals the document stored
\* for it in the backend that serves reads (here in the runs in which no
\* remote operation has failed and a document is stored).
C27_CacheMatchesStore ==
    (/\ \A t \in Threads : th[t].pc = "idle"
     /\ DB_LAST_ERROR = ""
     /\ CacheHit("doc")
     /\ IsJson(StoredDoc("doc")))
        => JSON_CACHE["doc"][2].val = json_loads(StoredDoc("doc"))

\* C28: with the remote enabled, seed_json_key(key, default) on a key whose
\* remote row holds a document R changes nothing a reader sees: the next
\* load_json(key, anything) returns R (here in the runs in which no remote
\* operation has failed).
C28_SeedInvisible ==
    (/\ Succession("seed_json_key", "load_json")
     /\ db_enabled
     /\ DB_LAST_ERROR = ""
     /\ IsJson(First.pre[2]))
        => Last.ret = json_loads(First.pre[2])

\* C29: a password-reset token that consume_password_reset_token has returned
\* once is never valid again: every later peek or consume of it returns
\* None, whatever time has passed and whichever remote operations failed.
C29_ConsumedStaysConsumed ==
    (/\ Last.op \in {"peek_password_reset_token", "consume_password_reset_token"}
     /\ Last.arg \in Last.gone)
        => Last.ret = {}

\* C30: the document store never deadlocks: DATA_LOCK and JSON_CACHE_LOCK are
\* taken only in the order DATA_LOCK then JSON_CACHE_LOCK, so every call of
\* load_json, save_json and seed_json_key, in every concurrent mix, returns.
C30_CallsComplete ==
    \A t \in Threads : (th[t].pc # "idle") ~> (th[t].pc = "idle")

\* a thread holds DATA_LOCK in load_json and waits for JSON_CACHE_LOCK, which
\* the other thread holds
C30_Witness ==
    \E t, u \in Threads :
        /\ t # u
        /\ DATA_LOCK = t
        /\ th[t].pc \in {"lj_read_cache", "lj_corrupt"}
        /\ JSON_CACHE_LOCK = u

====
